---- MODULE Spec2Model ----
(***************************************************************************)
(* Model of the Ethereum payload builder with inclusion-list (IL) support: *)
(* default_ethereum_payload in crates/ethereum/payload/src/lib.rs.         *)
(*                                                                         *)
(* One build attempt is a single-threaded computation.  The model follows  *)
(* its control flow: pre-block system calls, the mempool packing loop      *)
(* (one step for best_txs.next(), one for the loop body), the IL           *)
(* fixed-point pass (one step per loop iteration), the revenue gate and    *)
(* the finalizer.  The cancel token is signalled by the environment.       *)
(***************************************************************************)
EXTENDS Integers, Sequences, FiniteSets, TLC

\* ---------------------------------------------------------------------------
\* Bounds of the model
\* ---------------------------------------------------------------------------
\* Largest number of transactions the mempool iterator yields in one attempt.
MaxYield == 3
\* Largest inclusion-list length.
MaxIL == 2

\* ---------------------------------------------------------------------------
\* Program constants and inputs
\* ---------------------------------------------------------------------------
MAX_DATA_GAS_PER_BLOCK == 786432
DATA_GAS_PER_BLOB == 131072

\* evm_env.block_env.gas_limit and evm_env.block_env.basefee of the attempt.
block_gas_limit == 5
base_fee == 1

\* Optional values: Nothing, or Some(x) holding x.
Nothing == <<>>
Some(x) == << x >>
Unwrap(o) == o[1]

\* An IL slot that failed to decode, and "no transaction" for pool_tx.
NoTx == 0

\* The absent error, reason or outcome kind.
None == "none"

\* What evm.transact returned: Ok(result), or an error that is not a
\* transaction error (EVMError::Database and the like); a transaction error
\* is recorded under its own name.
EvmOk == "Ok"

EvmFatal == "EVMError::Other"

Senders == {"A", "B", "C", "D"}

\* The transactions that exist in this world (mempool and IL draw from them).
\*   1: A nonce 0, pays 1 to C            (executable at once)
\*   2: A nonce 1                         (NonceTooHigh until 1 is committed)
\*   3: C nonce 0, C starts without funds (LackOfFundForMaxFee until 1 pays C)
\*   4: B nonce 0, EIP-4844 with 4 blobs
\*   5: B nonce 1, EIP-4844 with 2 blobs  (4 + 2 blobs fill the blob space)
\*   6: D nonce 0, EIP-4844 with 3 blobs  (4 + 3 blobs exceed the blob space)
TxTable ==
  << [sender |-> "A", nonce |-> 0, gas_limit |-> 3, gas_used |-> 1, max_fee |-> 2,
      max_priority |-> 1, blobs |-> 0, cost |-> 1, pay_to |-> "C", value |-> 1],
     [sender |-> "A", nonce |-> 1, gas_limit |-> 3, gas_used |-> 2, max_fee |-> 3,
      max_priority |-> 1, blobs |-> 0, cost |-> 1, pay_to |-> "A", value |-> 0],
     [sender |-> "C", nonce |-> 0, gas_limit |-> 4, gas_used |-> 3, max_fee |-> 3,
      max_priority |-> 2, blobs |-> 0, cost |-> 1, pay_to |-> "C", value |-> 0],
     [sender |-> "B", nonce |-> 0, gas_limit |-> 2, gas_used |-> 1, max_fee |-> 2,
      max_priority |-> 1, blobs |-> 4, cost |-> 1, pay_to |-> "B", value |-> 0],
     [sender |-> "B", nonce |-> 1, gas_limit |-> 1, gas_used |-> 1, max_fee |-> 2,
      max_priority |-> 1, blobs |-> 2, cost |-> 1, pay_to |-> "B", value |-> 0],
     [sender |-> "D", nonce |-> 0, gas_limit |-> 1, gas_used |-> 1, max_fee |-> 2,
      max_priority |-> 1, blobs |-> 3, cost |-> 1, pay_to |-> "D", value |-> 0] >>

TxIds == 1..Len(TxTable)

Tx(id) == TxTable[id]

\* Transactions an IL slot can decode to (one blob transaction suffices there).
ILTxIds == 1..4

\* State at the parent block: account nonces and balances.
InitDb ==
  [nonce   |-> [s \in Senders |-> 0],
   balance |-> [s \in Senders |-> IF s = "C" THEN 0 ELSE 2]]

\* Fees of the best prior payload, when there is one.
BestPayloads == {Nothing, Some(2)}

\* ---------------------------------------------------------------------------
\* Helpers
\* ---------------------------------------------------------------------------
Min(a, b) == IF a < b THEN a ELSE b

\* All sequences over S of length at most n.
SeqsUpTo(S, n) == UNION {[1..k -> S] : k \in 0..n}

\* tx.is_eip4844() / tx.as_eip4844()
is_eip4844(t) == t.blobs > 0

\* blob_tx.blob_gas()
blob_gas(t) == t.blobs * DATA_GAS_PER_BLOB

\* tx.effective_tip_per_gas(base_fee): Nothing when max_fee < base_fee.
effective_tip_per_gas(t, bf) ==
  IF t.max_fee < bf THEN Nothing ELSE Some(Min(t.max_priority, t.max_fee - bf))

\* ---------------------------------------------------------------------------
\* The EVM collaborator: transact, then commit of the returned state
\* ---------------------------------------------------------------------------
\* The state an executed transaction leaves: the sender's nonce is bumped, the
\* sender pays and the recipient is credited.
PostState(d, t) ==
  LET debited == [d.balance EXCEPT ![t.sender] = @ - t.cost]
  IN [nonce   |-> [d.nonce EXCEPT ![t.sender] = @ + 1],
      balance |-> [debited EXCEPT ![t.pay_to] = @ + t.value]]

TxError(d, err) == [ok |-> FALSE, err |-> err, gas_used |-> 0, state |-> d]

\* evm.transact(tx_env) when the database answers: a transaction-level error,
\* or ResultAndState {result, state}.  A database error is a separate outcome
\* of the step that calls it.
Transact(d, t) ==
  IF effective_tip_per_gas(t, base_fee) = Nothing
    THEN TxError(d, "GasPriceLessThanBasefee")
  ELSE IF t.nonce < d.nonce[t.sender]
    THEN TxError(d, "NonceTooLow")
  ELSE IF t.nonce > d.nonce[t.sender]
    THEN TxError(d, "NonceTooHigh")
  ELSE IF d.balance[t.sender] < t.cost
    THEN TxError(d, "LackOfFundForMaxFee")
  ELSE [ok |-> TRUE, err |-> None, gas_used |-> t.gas_used, state |-> PostState(d, t)]

\* ---------------------------------------------------------------------------
\* The mempool iterator collaborator (best_txs)
\* ---------------------------------------------------------------------------
\* mark_invalid(tx, _): evicts tx and its descendants (same sender, higher
\* nonce) from the iterator.
Descendants(id) ==
  {o \in TxIds : Tx(o).sender = Tx(id).sender /\ Tx(o).nonce > Tx(id).nonce}

Evict(inv, id) == inv \cup {id} \cup Descendants(id)

\* Records of the calls made on the iterator: mark_invalid(tx, reason), where
\* ExceedsGasLimit carries (have, limit), and skip_blobs() after including tx.
MarkInvalidCall(id, reason, have, limit) ==
  [op |-> "mark_invalid", tx |-> id, reason |-> reason, have |-> have, limit |-> limit]

SkipBlobsCall(id) ==
  [op |-> "skip_blobs", tx |-> id, reason |-> None, have |-> 0, limit |-> 0]

\* What best_txs.next() may return: any transaction that was not evicted and,
\* after skip_blobs(), is not a blob transaction.
Yieldable(inv, skipped) ==
  {id \in TxIds : id \notin inv /\ (skipped => ~is_eip4844(Tx(id)))}

\* ---------------------------------------------------------------------------
\* Conditions and values of default_ethereum_payload
\* ---------------------------------------------------------------------------
\* Faulty guard: only a block that is already full rejects a transaction.
PoolExceedsGasLimit_FullOnly(cum, t) == cum >= block_gas_limit

\* Faulty guard: a transaction that exactly fills the block is rejected too.
PoolExceedsGasLimit_Inclusive(cum, t) == cum + t.gas_limit >= block_gas_limit

\* Mempool loop: "ensure we still have capacity for this transaction".
PoolExceedsGasLimit(cum, t) == cum + t.gas_limit > block_gas_limit

\* Faulty guard: the blob gas of the transaction itself is left out.
PoolExceedsBlobGas_SumOnly(sum, t) == is_eip4844(t) /\ sum > MAX_DATA_GAS_PER_BLOCK

\* Mempool loop: the EIP-4844 transaction no longer fits the blob space.
PoolExceedsBlobGas(sum, t) ==
  is_eip4844(t) /\ sum + blob_gas(t) > MAX_DATA_GAS_PER_BLOCK

\* Faulty classification: NonceTooLow marks the transaction invalid as well.
PoolErrMarksInvalid_Always(err) == TRUE

\* Mempool loop: a transaction-level error other than NonceTooLow marks the
\* transaction invalid.
PoolErrMarksInvalid(err) == err # "NonceTooLow"

\* Faulty blob cut-off: skip_blobs() after any included blob transaction.
ReachedMaxBlobGas_AnyBlob(sum) == sum > 0

\* Mempool loop: skip_blobs() once the blob space is used up.
ReachedMaxBlobGas(sum) == sum = MAX_DATA_GAS_PER_BLOCK

\* Faulty blob check: the IL pass lets blob transactions through.
ILRejectsBlob_Never(t) == FALSE

\* IL pass: blob transactions are not supported.
ILRejectsBlob(t) == is_eip4844(t)

\* Faulty clearing: the slot stays marked for consideration.
ClearBit_Forgotten(bits, idx) == bits

\* il_bitfield[i] = false: the slot at the scan index needs no further
\* consideration.
ClearBit(bits, idx) == [bits EXCEPT ![idx + 1] = FALSE]

\* IL pass: "transaction gas limit too high".
ILExceedsGasLimit(cum, t) == cum + t.gas_limit > block_gas_limit

\* Faulty error match: NonceTooLow is taken for the error that may pass.
ILErrIsTransient_NonceTooLow(err) ==
  err \in {"NonceTooLow", "LackOfFundForMaxFee"}

\* IL pass: errors after which the transaction may still become valid.
ILErrIsTransient(err) == err \in {"NonceTooHigh", "LackOfFundForMaxFee"}

\* Faulty restart: the scan goes on to the next slot after an inclusion.
ILIndexAfterInclusion_NoRestart(idx) == idx + 1

\* Faulty restart: the scan stays where the inclusion happened.
ILIndexAfterInclusion_Stay(idx) == idx

\* IL pass: index at which the scan continues after a successful inclusion.
ILIndexAfterInclusion(idx) == 0

\* Faulty scan: the index is not advanced past a skipped or rejected slot.
ILIndexAfterSkip_Stay(idx) == idx

\* Faulty scan: a skipped or rejected slot restarts the scan.
ILIndexAfterSkip_Restart(idx) == 0

\* IL pass: index at which the scan continues after a skipped or rejected slot.
ILIndexAfterSkip(idx) == idx + 1

\* Faulty commit: the returned state is dropped.
DbCommit_Dropped(d, state) == d

\* evm.db_mut().commit(state): the working state takes the returned state.
DbCommit(d, state) == state

\* Faulty receipt: records the gas of the transaction alone.
NewReceipt_PerTxGas(t, res, cum) ==
  [tx_type |-> IF is_eip4844(t) THEN "eip4844" ELSE "eip1559",
   success |-> res.ok,
   cumulative_gas_used |-> res.gas_used]

\* The receipt pushed for an executed transaction.
NewReceipt(t, res, cum) ==
  [tx_type |-> IF is_eip4844(t) THEN "eip4844" ELSE "eip1559",
   success |-> res.ok,
   cumulative_gas_used |-> cum]

\* Faulty push: the transaction is put in front of the executed ones.
PushExecuted_InFront(txs, id) == <<id>> \o txs

\* executed_txs.push(tx): the transaction goes to the end of the list.
PushExecuted(txs, id) == Append(txs, id)

\* Faulty fee: the tip is charged on the gas limit, not on the gas used.
MinerFee_GasLimit(t, res) ==
  Unwrap(effective_tip_per_gas(t, base_fee)) * t.gas_limit

\* miner_fee * gas_used
MinerFee(t, res) == Unwrap(effective_tip_per_gas(t, base_fee)) * res.gas_used

\* reth_basic_payload_builder::is_better_payload
is_better_payload(best, fees) == IF best = Nothing THEN TRUE ELSE fees > Unwrap(best)

\* Faulty gate: equal fees count as better.
GateAborts_NonStrict(best, fees) == ~(best = Nothing \/ fees >= Unwrap(best))

\* Faulty gate: a missing best payload counts as one with zero fees.
GateAborts_BestDefaultsToZero(best, fees) ==
  ~(fees > (IF best = Nothing THEN 0 ELSE Unwrap(best)))

\* The revenue gate: the attempt is given up when it is not better.
GateAborts(best, fees) == ~is_better_payload(best, fees)

\* BuildOutcome::into_payload: only Better carries a payload.
into_payload(o) == IF o.kind = "Better" THEN Some(o.fees) ELSE Nothing

\* build_empty_payload on the attempt's return value o: an error is passed
\* on, a missing payload becomes MissingPayload.
build_empty_payload(o) ==
  IF o.kind \in {"Internal", "EvmExecutionError"} THEN o.kind
  ELSE IF into_payload(o) = Nothing THEN "MissingPayload"
  ELSE "Payload"

\* ---------------------------------------------------------------------------
\* State
\* ---------------------------------------------------------------------------
VARIABLES
  pc,                  \* position of the attempt
  outcome,             \* what the attempt returned, kind None while it runs
  cancelled,           \* cancel.is_cancelled()
  best_payload,        \* args.best_payload: fees of the best prior payload
  cancun,              \* chain_spec.is_cancun_active_at_timestamp(timestamp)
  il,                  \* attributes.il: sequence of transaction ids or NoTx
  db,                  \* working state
  cumulative_gas_used,
  sum_blob_gas_used,
  total_fees,
  executed_txs,
  receipts,
  pool_tx,             \* transaction yielded by best_txs.next(), or NoTx
  yields,              \* number of transactions yielded so far
  invalid,             \* iterator: transactions evicted by mark_invalid
  blobs_skipped,       \* iterator: skip_blobs() was called
  iter_calls,          \* history of mark_invalid / skip_blobs calls
  evm_calls,           \* history of transactions submitted to evm.transact
  evm_results,         \* history of what evm.transact returned, call by call
  il_bitfield,
  i,
  header,              \* header of the sealed block, Nothing before sealing
  il_work              \* IL pass: loop iterations, inclusions, evm.transact calls

vars ==
  << pc, outcome, cancelled, best_payload, cancun, il, db, cumulative_gas_used,
     sum_blob_gas_used, total_fees, executed_txs, receipts, pool_tx, yields,
     invalid, blobs_skipped, iter_calls, evm_calls, evm_results, il_bitfield, i, header,
     il_work >>

inputs == << best_payload, cancun, il >>
accum == << db, cumulative_gas_used, sum_blob_gas_used, total_fees, executed_txs, receipts >>
iter == << invalid, blobs_skipped, iter_calls >>
ilstate == << il_bitfield, i, il_work >>

Init ==
  /\ pc = "pre_block"
  /\ outcome = [kind |-> None, fees |-> 0, cached_reads |-> FALSE]
  /\ cancelled = FALSE
  /\ best_payload \in BestPayloads
  /\ cancun \in BOOLEAN
  /\ il \in SeqsUpTo(ILTxIds \cup {NoTx}, MaxIL)
  /\ db = InitDb
  /\ cumulative_gas_used = 0
  /\ sum_blob_gas_used = 0
  /\ total_fees = 0
  /\ executed_txs = <<>>
  /\ receipts = <<>>
  /\ pool_tx = NoTx
  /\ yields = 0
  /\ invalid = {}
  /\ blobs_skipped = FALSE
  /\ iter_calls = <<>>
  /\ evm_calls = <<>>
  /\ evm_results = <<>>
  /\ il_bitfield = <<>>
  /\ i = 0
  /\ header = Nothing
  /\ il_work = [iterations |-> 0, inclusions |-> 0, transacts |-> 0]

\* ---------------------------------------------------------------------------
\* Actions
\* ---------------------------------------------------------------------------
\* The environment signals the cancel token.
Cancel ==
  /\ pc # "done"
  /\ ~cancelled
  /\ cancelled' = TRUE
  /\ UNCHANGED << pc, outcome, inputs, accum, pool_tx, yields, iter, evm_calls, evm_results,
                  ilstate, header >>

\* The attempt returns: an error kind, Cancelled, Aborted{fees, cached_reads}
\* or Better{payload, cached_reads}, the payload carrying the fees.
Return(kind, fees, reads) ==
  /\ pc' = "done"
  /\ outcome' = [kind |-> kind, fees |-> fees, cached_reads |-> reads]

\* State lookup and the pre-block system calls (EIP-4788, EIP-2935) succeed.
PreBlockOk ==
  /\ pc = "pre_block"
  /\ pc' = "next"
  /\ UNCHANGED << outcome, cancelled, inputs, accum, pool_tx, yields, iter,
                  evm_calls, evm_results, ilstate, header >>

\* State lookup or a pre-block system call fails: fatal for the attempt.
PreBlockErr ==
  /\ pc = "pre_block"
  /\ Return("Internal", 0, FALSE)
  /\ UNCHANGED << cancelled, inputs, accum, pool_tx, yields, iter, evm_calls, evm_results,
                  ilstate, header >>

\* best_txs.next() returns Some(pool_tx).
PoolNext ==
  /\ pc = "next"
  /\ yields < MaxYield
  /\ \E id \in Yieldable(invalid, blobs_skipped) : pool_tx' = id
  /\ yields' = yields + 1
  /\ pc' = "body"
  /\ UNCHANGED << outcome, cancelled, inputs, accum, iter, evm_calls, evm_results, ilstate,
                  header >>

\* best_txs.next() returns None: the loop ends and the IL pass is set up.
PoolExhausted ==
  /\ pc = "next"
  /\ pc' = "il"
  /\ il_bitfield' = [k \in 1..Len(il) |-> il[k] # NoTx]
  /\ i' = 0
  /\ UNCHANGED << outcome, cancelled, inputs, accum, pool_tx, yields, iter,
                  evm_calls, evm_results, header, il_work >>

\* Loop body: the transaction does not fit the remaining block gas.
PoolGasReject ==
  /\ pc = "body"
  /\ PoolExceedsGasLimit(cumulative_gas_used, Tx(pool_tx))
  /\ invalid' = Evict(invalid, pool_tx)
  /\ iter_calls' = Append(iter_calls,
       MarkInvalidCall(pool_tx, "ExceedsGasLimit", Tx(pool_tx).gas_limit, block_gas_limit))
  /\ pc' = "next"
  /\ pool_tx' = NoTx
  /\ UNCHANGED << outcome, cancelled, inputs, accum, yields, blobs_skipped,
                  evm_calls, evm_results, ilstate, header >>

\* Loop body: the job was cancelled.
PoolCancelled ==
  /\ pc = "body"
  /\ ~PoolExceedsGasLimit(cumulative_gas_used, Tx(pool_tx))
  /\ cancelled
  /\ Return("Cancelled", 0, FALSE)
  /\ pool_tx' = NoTx
  /\ UNCHANGED << cancelled, inputs, accum, yields, iter, evm_calls, evm_results, ilstate,
                  header >>

\* Faulty body: the cancel token is not polled.
PoolPastCancel_NoPoll ==
  /\ pc = "body"
  /\ ~PoolExceedsGasLimit(cumulative_gas_used, Tx(pool_tx))

\* The body reaches the blob check.
PoolPastCancel ==
  /\ pc = "body"
  /\ ~PoolExceedsGasLimit(cumulative_gas_used, Tx(pool_tx))
  /\ ~cancelled

\* Loop body: the blob transaction does not fit the remaining blob space.
PoolBlobReject ==
  /\ PoolPastCancel
  /\ PoolExceedsBlobGas(sum_blob_gas_used, Tx(pool_tx))
  /\ invalid' = Evict(invalid, pool_tx)
  /\ iter_calls' = Append(iter_calls,
       MarkInvalidCall(pool_tx, "ExceedsGasLimit", blob_gas(Tx(pool_tx)),
                       MAX_DATA_GAS_PER_BLOCK))
  /\ pc' = "next"
  /\ pool_tx' = NoTx
  /\ UNCHANGED << outcome, cancelled, inputs, accum, yields, blobs_skipped,
                  evm_calls, evm_results, ilstate, header >>

\* The body submits the transaction to the EVM.
PoolTransacts ==
  /\ PoolPastCancel
  /\ ~PoolExceedsBlobGas(sum_blob_gas_used, Tx(pool_tx))
  /\ evm_calls' = Append(evm_calls, pool_tx)

\* Loop body: evm.transact fails with a non-transaction error.
PoolExecFatal ==
  /\ PoolTransacts
  /\ evm_results' = Append(evm_results, EvmFatal)
  /\ Return("EvmExecutionError", 0, FALSE)
  /\ pool_tx' = NoTx
  /\ UNCHANGED << cancelled, inputs, accum, yields, iter, ilstate, header >>

\* Loop body: evm.transact fails with a transaction-level error.
PoolExecTxErr ==
  /\ PoolTransacts
  /\ LET res == Transact(db, Tx(pool_tx)) IN
       /\ ~res.ok
       /\ evm_results' = Append(evm_results, res.err)
       /\ IF PoolErrMarksInvalid(res.err)
            THEN /\ invalid' = Evict(invalid, pool_tx)
                 /\ iter_calls' = Append(iter_calls,
                      MarkInvalidCall(pool_tx, "Consensus(TxTypeNotSupported)", 0, 0))
            ELSE UNCHANGED << invalid, iter_calls >>
  /\ pc' = "next"
  /\ pool_tx' = NoTx
  /\ UNCHANGED << outcome, cancelled, inputs, accum, yields, blobs_skipped,
                  ilstate, header >>

\* Loop body: the transaction executes and is added to the block.
PoolExecOk ==
  /\ PoolTransacts
  /\ LET t == Tx(pool_tx)
         res == Transact(db, t)
         blob == IF is_eip4844(t) THEN sum_blob_gas_used + blob_gas(t)
                 ELSE sum_blob_gas_used
         cum == cumulative_gas_used + res.gas_used
     IN
       /\ res.ok
       /\ evm_results' = Append(evm_results, EvmOk)
       /\ db' = DbCommit(db, res.state)
       /\ sum_blob_gas_used' = blob
       /\ IF is_eip4844(t) /\ ReachedMaxBlobGas(blob)
            THEN /\ blobs_skipped' = TRUE
                 /\ iter_calls' = Append(iter_calls,
                      SkipBlobsCall(pool_tx))
            ELSE UNCHANGED << blobs_skipped, iter_calls >>
       /\ cumulative_gas_used' = cum
       /\ receipts' = Append(receipts, NewReceipt(t, res, cum))
       /\ total_fees' = total_fees + MinerFee(t, res)
       /\ executed_txs' = PushExecuted(executed_txs, pool_tx)
  /\ pc' = "next"
  /\ pool_tx' = NoTx
  /\ UNCHANGED << outcome, cancelled, inputs, yields, invalid, ilstate, header >>

\* Faulty pass end: the cancel token is polled once the pass is over.
ILDone_PollsCancel ==
  /\ pc = "il"
  /\ ~(i < Len(il))
  /\ IF cancelled THEN Return("Cancelled", 0, FALSE)
     ELSE pc' = "gate" /\ outcome' = outcome
  /\ UNCHANGED << cancelled, inputs, accum, pool_tx, yields, iter,
                  evm_calls, evm_results, ilstate, header >>

\* IL pass: the loop condition fails, the pass is over.
ILDone ==
  /\ pc = "il"
  /\ ~(i < Len(il))
  /\ pc' = "gate"
  /\ UNCHANGED << outcome, cancelled, inputs, accum, pool_tx, yields, iter,
                  evm_calls, evm_results, ilstate, header >>

\* IL pass: the slot needs no further consideration.
ILSkipCleared ==
  /\ pc = "il"
  /\ i < Len(il)
  /\ ~il_bitfield[i + 1]
  /\ i' = ILIndexAfterSkip(i)
  /\ il_work' = [il_work EXCEPT !.iterations = @ + 1]
  /\ UNCHANGED << pc, outcome, cancelled, inputs, accum, pool_tx, yields, iter,
                  evm_calls, evm_results, il_bitfield, header >>

\* The iteration looks at the transaction of a slot that is still set.
ILVisits ==
  /\ pc = "il"
  /\ i < Len(il)
  /\ il_bitfield[i + 1]

\* IL pass: blob transactions are not supported.
ILBlobReject ==
  /\ ILVisits
  /\ ILRejectsBlob(Tx(il[i + 1]))
  /\ il_bitfield' = ClearBit(il_bitfield, i)
  /\ i' = ILIndexAfterSkip(i)
  /\ il_work' = [il_work EXCEPT !.iterations = @ + 1]
  /\ UNCHANGED << pc, outcome, cancelled, inputs, accum, pool_tx, yields, iter,
                  evm_calls, evm_results, header >>

\* IL pass: the transaction gas limit is too high.
ILGasReject ==
  /\ ILVisits
  /\ ~ILRejectsBlob(Tx(il[i + 1]))
  /\ ILExceedsGasLimit(cumulative_gas_used, Tx(il[i + 1]))
  /\ il_bitfield' = ClearBit(il_bitfield, i)
  /\ i' = ILIndexAfterSkip(i)
  /\ il_work' = [il_work EXCEPT !.iterations = @ + 1]
  /\ UNCHANGED << pc, outcome, cancelled, inputs, accum, pool_tx, yields, iter,
                  evm_calls, evm_results, header >>

\* The iteration submits the transaction to the EVM.
ILTransacts ==
  /\ ILVisits
  /\ ~ILRejectsBlob(Tx(il[i + 1]))
  /\ ~ILExceedsGasLimit(cumulative_gas_used, Tx(il[i + 1]))
  /\ evm_calls' = Append(evm_calls, il[i + 1])

\* Faulty error match: the non-transaction error is handled like a permanent
\* transaction error, the slot is dropped and the pass goes on.
ILExecFatal_Swallowed ==
  /\ ILTransacts
  /\ evm_results' = Append(evm_results, EvmFatal)
  /\ il_bitfield' = ClearBit(il_bitfield, i)
  /\ i' = ILIndexAfterSkip(i)
  /\ il_work' = [il_work EXCEPT !.iterations = @ + 1, !.transacts = @ + 1]
  /\ UNCHANGED << pc, outcome, cancelled, inputs, accum, pool_tx, yields, iter,
                  header >>

\* IL pass: evm.transact fails with a non-transaction error.
ILExecFatal ==
  /\ ILTransacts
  /\ evm_results' = Append(evm_results, EvmFatal)
  /\ Return("EvmExecutionError", 0, FALSE)
  /\ il_work' = [il_work EXCEPT !.iterations = @ + 1, !.transacts = @ + 1]
  /\ UNCHANGED << cancelled, inputs, accum, pool_tx, yields, iter, il_bitfield,
                  i, header >>

\* Faulty error path: the failed transaction is charged to the block gas.
ILExecTxErr_ChargesGas ==
  /\ ILTransacts
  /\ LET res == Transact(db, Tx(il[i + 1])) IN
       /\ ~res.ok
       /\ evm_results' = Append(evm_results, res.err)
       /\ il_bitfield' = IF ILErrIsTransient(res.err) THEN il_bitfield
                         ELSE ClearBit(il_bitfield, i)
  /\ cumulative_gas_used' = cumulative_gas_used + Tx(il[i + 1]).gas_used
  /\ i' = ILIndexAfterSkip(i)
  /\ il_work' = [il_work EXCEPT !.iterations = @ + 1, !.transacts = @ + 1]
  /\ UNCHANGED << pc, outcome, cancelled, inputs, db, sum_blob_gas_used,
                  total_fees, executed_txs, receipts, pool_tx, yields, iter,
                  header >>

\* IL pass: evm.transact fails with a transaction-level error.
ILExecTxErr ==
  /\ ILTransacts
  /\ LET res == Transact(db, Tx(il[i + 1])) IN
       /\ ~res.ok
       /\ evm_results' = Append(evm_results, res.err)
       /\ il_bitfield' = IF ILErrIsTransient(res.err) THEN il_bitfield
                         ELSE ClearBit(il_bitfield, i)
  /\ i' = ILIndexAfterSkip(i)
  /\ il_work' = [il_work EXCEPT !.iterations = @ + 1, !.transacts = @ + 1]
  /\ UNCHANGED << pc, outcome, cancelled, inputs, accum, pool_tx, yields, iter,
                  header >>

\* IL pass: the transaction executes and is added to the block.
ILExecOk ==
  /\ ILTransacts
  /\ LET t == Tx(il[i + 1])
         res == Transact(db, t)
         cum == cumulative_gas_used + res.gas_used
     IN
       /\ res.ok
       /\ evm_results' = Append(evm_results, EvmOk)
       /\ db' = DbCommit(db, res.state)
       /\ cumulative_gas_used' = cum
       /\ receipts' = Append(receipts, NewReceipt(t, res, cum))
       /\ total_fees' = total_fees + MinerFee(t, res)
       /\ executed_txs' = PushExecuted(executed_txs, il[i + 1])
  /\ il_bitfield' = ClearBit(il_bitfield, i)
  /\ i' = ILIndexAfterInclusion(i)
  /\ il_work' = [il_work EXCEPT !.iterations = @ + 1, !.inclusions = @ + 1,
                                !.transacts = @ + 1]
  /\ UNCHANGED << pc, outcome, cancelled, inputs, sum_blob_gas_used, pool_tx,
                  yields, iter, header >>

\* Revenue gate: the attempt is not better than the best prior payload.
GateAbort ==
  /\ pc = "gate"
  /\ GateAborts(best_payload, total_fees)
  /\ Return("Aborted", total_fees, TRUE)
  /\ UNCHANGED << cancelled, inputs, accum, pool_tx, yields, iter, evm_calls, evm_results,
                  ilstate, header >>

\* Revenue gate: the attempt is better, the block is finalized.
GatePass ==
  /\ pc = "gate"
  /\ ~GateAborts(best_payload, total_fees)
  /\ pc' = "finalize"
  /\ UNCHANGED << outcome, cancelled, inputs, accum, pool_tx, yields, iter,
                  evm_calls, evm_results, ilstate, header >>

\* Faulty header: gas_used is filled with the block gas limit.
SealedHeader_LimitAsUsed ==
  [gas_limit     |-> block_gas_limit,
   gas_used      |-> block_gas_limit,
   blob_gas_used |-> IF cancun THEN Some(sum_blob_gas_used) ELSE Nothing]

\* The header fields the attempt accumulates.
SealedHeader ==
  [gas_limit     |-> block_gas_limit,
   gas_used      |-> cumulative_gas_used,
   blob_gas_used |-> IF cancun THEN Some(sum_blob_gas_used) ELSE Nothing]

\* Finalizer: requests, withdrawals, roots, header assembly and sealing succeed.
FinalizeOk ==
  /\ pc = "finalize"
  /\ header' = Some(SealedHeader)
  /\ Return("Better", total_fees, TRUE)
  /\ UNCHANGED << cancelled, inputs, accum, pool_tx, yields, iter, evm_calls, evm_results,
                  ilstate >>

\* Finalizer: a post-block call, the withdrawals commit, the state root or the
\* sidecar lookup fails.
FinalizeErr ==
  /\ pc = "finalize"
  /\ Return("Internal", 0, FALSE)
  /\ UNCHANGED << cancelled, inputs, accum, pool_tx, yields, iter, evm_calls, evm_results,
                  ilstate, header >>

Next ==
  \/ Cancel
  \/ PreBlockOk
  \/ PreBlockErr
  \/ PoolNext
  \/ PoolExhausted
  \/ PoolGasReject
  \/ PoolCancelled
  \/ PoolBlobReject
  \/ PoolExecFatal
  \/ PoolExecTxErr
  \/ PoolExecOk
  \/ ILDone
  \/ ILSkipCleared
  \/ ILBlobReject
  \/ ILGasReject
  \/ ILExecFatal
  \/ ILExecTxErr
  \/ ILExecOk
  \/ GateAbort
  \/ GatePass
  \/ FinalizeOk
  \/ FinalizeErr

Spec == Init /\ [][Next]_vars

\* Fairness: the attempt keeps running until it returns (the environment need
\* never signal the cancel token).
Step ==
  \/ PreBlockOk \/ PreBlockErr
  \/ PoolNext \/ PoolExhausted \/ PoolGasReject \/ PoolCancelled \/ PoolBlobReject
  \/ PoolExecFatal \/ PoolExecTxErr \/ PoolExecOk
  \/ ILDone \/ ILSkipCleared \/ ILBlobReject \/ ILGasReject
  \/ ILExecFatal \/ ILExecTxErr \/ ILExecOk
  \/ GateAbort \/ GatePass \/ FinalizeOk \/ FinalizeErr

\* The liveness check fixes the two inputs that only the gate and the finalizer
\* read: a best prior payload exists and Cancun is active.
FairInit == Init /\ cancun /\ best_payload # Nothing

FairSpec == FairInit /\ [][Next]_vars /\ WF_vars(Step)

\* ---------------------------------------------------------------------------
\* Vocabulary of the properties
\* ---------------------------------------------------------------------------
Range(s) == {s[k] : k \in 1..Len(s)}

Occurrences(s, x) == Cardinality({k \in 1..Len(s) : s[k] = x})

\* The IL pass ran to its end (the loop condition failed).
ILPassOver == pc \in {"gate", "finalize"} \/ outcome.kind \in {"Aborted", "Better"}

\* Number of transactions the mempool loop included.
PoolInclusions == Len(executed_txs) - il_work.inclusions

\* The transaction cannot be included on top of the current working state.
NotExecutableNow(id) ==
  \/ is_eip4844(Tx(id))
  \/ cumulative_gas_used + Tx(id).gas_limit > block_gas_limit
  \/ ~Transact(db, Tx(id)).ok

\* The transactions one more IL pass would include, started with a fresh
\* bitfield on working state d with cum gas used, scanning from index idx.
RECURSIVE ILPassIncludes(_, _, _, _)
ILPassIncludes(d, cum, bits, idx) ==
  IF idx >= Len(il) THEN <<>>
  ELSE IF ~bits[idx + 1] THEN ILPassIncludes(d, cum, bits, idx + 1)
  ELSE LET t == Tx(il[idx + 1])
           res == Transact(d, t)
           cleared == [bits EXCEPT ![idx + 1] = FALSE]
       IN IF is_eip4844(t) \/ cum + t.gas_limit > block_gas_limit
            THEN ILPassIncludes(d, cum, cleared, idx + 1)
          ELSE IF res.ok
            THEN <<il[idx + 1]>> \o ILPassIncludes(res.state, cum + res.gas_used, cleared, 0)
          ELSE IF res.err \in {"NonceTooHigh", "LackOfFundForMaxFee"}
            THEN ILPassIncludes(d, cum, bits, idx + 1)
          ELSE ILPassIncludes(d, cum, cleared, idx + 1)

\* Sum of gas_used over the first k executed transactions.
RECURSIVE GasUsedUpTo(_)
GasUsedUpTo(k) ==
  IF k = 0 THEN 0 ELSE GasUsedUpTo(k - 1) + Tx(executed_txs[k]).gas_used

\* Sum of blob_gas over the EIP-4844 transactions among the first k executed.
RECURSIVE BlobGasUpTo(_)
BlobGasUpTo(k) ==
  IF k = 0 THEN 0
  ELSE BlobGasUpTo(k - 1) +
       (IF Tx(executed_txs[k]).blobs > 0
          THEN Tx(executed_txs[k]).blobs * DATA_GAS_PER_BLOB ELSE 0)

\* ---------------------------------------------------------------------------
\* Properties
\* ---------------------------------------------------------------------------
\* C1: when the IL pass has terminated, every IL slot that decoded to a
\* transaction is in executed_txs or is not executable on the final working
\* state (blob transaction, gas limit beyond the remaining block gas, or a
\* transaction-level EVM error); and a second IL pass from the final state
\* would include nothing.
C1_ILFixedPoint ==
  ILPassOver =>
    /\ \A k \in 1..Len(il) :
         il[k] # NoTx => (il[k] \in Range(executed_txs) \/ NotExecutableNow(il[k]))
    /\ ILPassIncludes(db, cumulative_gas_used,
                      [k \in 1..Len(il) |-> il[k] # NoTx], 0) = <<>>

\* A pass that restarted: the later slot was included first, then the earlier
\* one it unlocked.
C1_Witness ==
  /\ pc = "gate"
  /\ Len(il) = 2
  /\ il_work.inclusions = 2
  /\ executed_txs[Len(executed_txs)] = il[1]
  /\ executed_txs[Len(executed_txs) - 1] = il[2]

\* C2: cumulative_gas_used never exceeds block_gas_limit, in the mempool loop
\* and in the IL pass, so the sealed header has gas_used <= gas_limit.
C2_GasWithinLimit ==
  /\ cumulative_gas_used <= block_gas_limit
  /\ header # Nothing => Unwrap(header).gas_used <= Unwrap(header).gas_limit

\* A sealed block that is exactly full.
C2_Witness ==
  /\ header # Nothing
  /\ Unwrap(header).gas_used = block_gas_limit
  /\ Len(executed_txs) = 3

\* C3: sum_blob_gas_used never exceeds MAX_DATA_GAS_PER_BLOCK and equals the
\* sum of blob_gas over the EIP-4844 transactions in executed_txs; the sealed
\* header carries that sum when Cancun is active and no blob_gas_used otherwise.
C3_BlobGas ==
  /\ sum_blob_gas_used <= MAX_DATA_GAS_PER_BLOCK
  /\ sum_blob_gas_used = BlobGasUpTo(Len(executed_txs))
  /\ header # Nothing =>
       Unwrap(header).blob_gas_used =
         (IF cancun THEN Some(BlobGasUpTo(Len(executed_txs))) ELSE Nothing)

\* A sealed Cancun block whose blob space is exactly used up, with an IL
\* transaction included after the blob transactions.
C3_Witness ==
  /\ header # Nothing
  /\ cancun
  /\ Unwrap(header).blob_gas_used = Some(MAX_DATA_GAS_PER_BLOCK)
  /\ il_work.inclusions > 0

\* C4: with a best prior payload, an attempt that is neither cancelled nor
\* fails is Better exactly when total_fees > best_prior.fees; equal fees give
\* Aborted carrying total_fees and the cached reads.
C4_RevenueGate ==
  (best_payload # Nothing /\ (pc = "finalize" \/ outcome.kind \in {"Aborted", "Better"})) =>
    /\ (pc = "finalize" \/ outcome.kind = "Better") <=> total_fees > Unwrap(best_payload)
    /\ total_fees = Unwrap(best_payload) =>
         outcome = [kind |-> "Aborted", fees |-> total_fees, cached_reads |-> TRUE]

\* An attempt that earned exactly the fees of the best prior payload.
C4_Witness ==
  /\ best_payload # Nothing
  /\ outcome.kind = "Aborted"
  /\ total_fees = Unwrap(best_payload)
  /\ Len(executed_txs) > 0

\* C5 as stated: when the cancel token is signalled as the iterator yields a
\* transaction, the loop body returns Cancelled at once, with no mark_invalid
\* call and no execution of that transaction.
C5_CancelledAtTop ==
  [][(pc = "body" /\ cancelled) =>
       /\ outcome'.kind = "Cancelled"
       /\ iter_calls' = iter_calls
       /\ evm_calls' = evm_calls]_vars

\* C5, amended: the cancel token is polled after the gas-limit guard.  With the
\* token signalled, a yielded transaction that fits the remaining block gas
\* makes the attempt return Cancelled at once, without mark_invalid, execution,
\* IL pass or sealing; one that does not fit is marked invalid with
\* ExceedsGasLimit and the loop goes on to the next transaction.
C5_CancelledAfterGasGuard ==
  /\ [][(pc = "body" /\ cancelled) =>
          IF cumulative_gas_used + Tx(pool_tx).gas_limit > block_gas_limit
            THEN /\ pc' = "next"
                 /\ outcome' = outcome
                 /\ evm_calls' = evm_calls
                 /\ iter_calls' = Append(iter_calls,
                      MarkInvalidCall(pool_tx, "ExceedsGasLimit",
                                      Tx(pool_tx).gas_limit, block_gas_limit))
            ELSE /\ pc' = "done"
                 /\ outcome'.kind = "Cancelled"
                 /\ evm_calls' = evm_calls
                 /\ iter_calls' = iter_calls
                 /\ UNCHANGED accum]_vars
  /\ [](outcome.kind = "Cancelled" =>
          /\ pc = "done"
          /\ header = Nothing
          /\ il_bitfield = <<>>
          /\ il_work.iterations = 0)

\* A cancelled attempt: one transaction was included and an oversized one was
\* marked invalid before the third yielded transaction met the signalled token.
C5_Witness ==
  /\ outcome.kind = "Cancelled"
  /\ Len(executed_txs) = 1
  /\ Len(iter_calls) = 1
  /\ iter_calls[1].reason = "ExceedsGasLimit"
  /\ yields = 3

\* C6: the IL pass terminates.  Every iteration either advances i by one
\* without setting a bit, or includes a transaction, clears its bit and resets
\* i to 0; the pass restarts at most n times for an IL of length n.
C6_ILTerminates ==
  /\ [][(pc = "il" /\ il_work' # il_work) =>
          \/ /\ i' = i + 1
             /\ \A k \in 1..Len(il) : il_bitfield'[k] => il_bitfield[k]
             /\ executed_txs' = executed_txs
          \/ /\ i' = 0
             /\ il_bitfield[i + 1]
             /\ il_bitfield' = [il_bitfield EXCEPT ![i + 1] = FALSE]
             /\ executed_txs' = Append(executed_txs, il[i + 1])
          \/ /\ outcome'.kind = "EvmExecutionError"
             /\ UNCHANGED << i, il_bitfield, executed_txs >>]_vars
  /\ [](il_work.inclusions <= Len(il))
  /\ (pc = "il") ~> (pc # "il")

\* A pass over a full-length IL that restarted after every slot.
C6_Witness ==
  /\ pc = "gate"
  /\ Len(il) >= 2
  /\ il_work.inclusions = Len(il)
  /\ il_work.iterations > 2 * Len(il)

\* C7: receipts[k].cumulative_gas_used is the sum of gas_used over executed
\* transactions 1..k, across the mempool loop and the IL pass, and is strictly
\* increasing.
C7_ReceiptsPrefixSum ==
  /\ Len(receipts) = Len(executed_txs)
  /\ \A k \in 1..Len(receipts) : receipts[k].cumulative_gas_used = GasUsedUpTo(k)
  /\ \A k \in 2..Len(receipts) :
       receipts[k - 1].cumulative_gas_used < receipts[k].cumulative_gas_used

\* Receipts of both phases: two from the mempool loop, then one from the IL pass.
C7_Witness ==
  /\ PoolInclusions >= 2
  /\ il_work.inclusions >= 1
  /\ receipts[Len(receipts)].cumulative_gas_used = cumulative_gas_used

\* C8: no transaction appears twice in executed_txs.
C8_NoDuplicates ==
  \A j, k \in 1..Len(executed_txs) : j # k => executed_txs[j] # executed_txs[k]

\* A transaction the mempool yielded twice and the IL lists twice, included once.
C8_Witness ==
  \E id \in TxIds :
    /\ Occurrences(evm_calls, id) >= 4
    /\ Occurrences(il, id) = 2
    /\ Occurrences(executed_txs, id) = 1
    /\ pc = "gate"

\* C9: in the mempool loop a transaction failing with NonceTooLow is skipped
\* without a mark_invalid call, every other transaction-level error causes
\* exactly one mark_invalid(tx, Consensus(TxTypeNotSupported)); either way
\* nothing is included and the loop continues with the next transaction.
C9_PoolTxErrors ==
  [][(pc = "body" /\ pc' = "next" /\ evm_calls' # evm_calls
        /\ ~Transact(db, Tx(pool_tx)).ok) =>
       /\ UNCHANGED accum
       /\ IF Transact(db, Tx(pool_tx)).err = "NonceTooLow"
            THEN /\ iter_calls' = iter_calls
                 /\ invalid' = invalid
            ELSE /\ iter_calls' = Append(iter_calls,
                      MarkInvalidCall(pool_tx, "Consensus(TxTypeNotSupported)", 0, 0))
                 /\ pool_tx \in invalid']_vars

\* Transaction 1 was yielded twice (the second time NonceTooLow, not marked
\* invalid), then its sender's next nonce was yielded and included.
C9_Witness ==
  /\ evm_calls = <<1, 1, 2>>
  /\ executed_txs = <<1, 2>>
  /\ iter_calls = <<>>

\* C10: in the mempool loop a transaction with cumulative_gas_used +
\* gas_limit = block_gas_limit passes the gas guard and (unless the attempt is
\* cancelled or the blob guard rejects it) is submitted to the EVM; one with
\* cumulative_gas_used + gas_limit = block_gas_limit + 1 is not executed and
\* is marked invalid with ExceedsGasLimit(gas_limit, block_gas_limit).
C10_GasGuardBoundary ==
  [][(pc = "body" /\ pc' # "body") =>
       /\ (cumulative_gas_used + Tx(pool_tx).gas_limit = block_gas_limit) =>
            /\ iter_calls' # iter_calls =>
                 iter_calls'[Len(iter_calls')].reason # "ExceedsGasLimit"
                   \/ iter_calls'[Len(iter_calls')].limit # block_gas_limit
            /\ (~cancelled /\ ~(is_eip4844(Tx(pool_tx))
                                /\ sum_blob_gas_used + blob_gas(Tx(pool_tx))
                                     > MAX_DATA_GAS_PER_BLOCK)) =>
                 evm_calls' = Append(evm_calls, pool_tx)
       /\ (cumulative_gas_used + Tx(pool_tx).gas_limit = block_gas_limit + 1) =>
            /\ evm_calls' = evm_calls
            /\ UNCHANGED accum
            /\ pc' = "next"
            /\ iter_calls' = Append(iter_calls,
                 MarkInvalidCall(pool_tx, "ExceedsGasLimit",
                                 Tx(pool_tx).gas_limit, block_gas_limit))]_vars

\* Transaction 3 exactly filled the remaining gas budget and was included; the
\* next one was over the budget by one and was marked invalid.
C10_Witness ==
  /\ executed_txs = <<1, 3>>
  /\ receipts[1].cumulative_gas_used + Tx(3).gas_limit = block_gas_limit
  /\ Len(iter_calls) = 1
  /\ iter_calls[1] = MarkInvalidCall(4, "ExceedsGasLimit", Tx(4).gas_limit, block_gas_limit)
  /\ cumulative_gas_used + Tx(4).gas_limit = block_gas_limit + 1

\* ---------------------------------------------------------------------------
\* C11: skip_blobs() is called exactly by the step that includes a blob
\* transaction bringing sum_blob_gas_used to exactly MAX_DATA_GAS_PER_BLOCK,
\* and by no other step of the attempt. A blob transaction that would take the
\* sum beyond the limit is never executed; once it has passed the gas guard
\* and the cancel check it is marked invalid with
\* ExceedsGasLimit(blob_gas, MAX_DATA_GAS_PER_BLOCK) and nothing else changes.
\* ---------------------------------------------------------------------------
C11_SkipBlobsAtLimit ==
  [][IF pc = "body" /\ pc' # "body"
       THEN LET t == Tx(pool_tx) IN
         /\ (iter_calls' = Append(iter_calls, SkipBlobsCall(pool_tx)))
              <=> /\ is_eip4844(t)
                  /\ executed_txs' = Append(executed_txs, pool_tx)
                  /\ sum_blob_gas_used' = sum_blob_gas_used + blob_gas(t)
                  /\ sum_blob_gas_used' = MAX_DATA_GAS_PER_BLOCK
         /\ blobs_skipped' =
              (blobs_skipped
                 \/ iter_calls' = Append(iter_calls, SkipBlobsCall(pool_tx)))
         /\ (is_eip4844(t)
               /\ sum_blob_gas_used + blob_gas(t) > MAX_DATA_GAS_PER_BLOCK)
              => /\ evm_calls' = evm_calls
                 /\ UNCHANGED accum
                 /\ (cumulative_gas_used + t.gas_limit <= block_gas_limit
                       /\ ~cancelled)
                      => /\ iter_calls' = Append(iter_calls,
                              MarkInvalidCall(pool_tx, "ExceedsGasLimit",
                                blob_gas(t), MAX_DATA_GAS_PER_BLOCK))
                         /\ pool_tx \in invalid'
                         /\ pc' = "next"
       ELSE UNCHANGED << iter_calls, blobs_skipped >>]_vars

\* A blob transaction was turned away at the blob limit and a later one
\* filled the blob space exactly, which called skip_blobs().
C11_Witness ==
  /\ executed_txs = <<4, 5>>
  /\ sum_blob_gas_used = MAX_DATA_GAS_PER_BLOCK
  /\ iter_calls = << MarkInvalidCall(6, "ExceedsGasLimit", blob_gas(Tx(6)),
                                     MAX_DATA_GAS_PER_BLOCK),
                     SkipBlobsCall(5) >>

\* ---------------------------------------------------------------------------
\* C12: total_fees is the sum, over the transactions of executed_txs (mempool
\* loop and IL pass alike), of the effective tip per gas at the block base fee
\* times the gas the transaction used. Skipped, rejected and invalid
\* transactions add nothing.
\* ---------------------------------------------------------------------------
RECURSIVE FeesUpTo(_)
FeesUpTo(k) ==
  IF k = 0 THEN 0
  ELSE LET t == Tx(executed_txs[k])
           tip == Min(t.max_priority, t.max_fee - base_fee)
       IN FeesUpTo(k - 1) + tip * t.gas_used

C12_TotalFees == total_fees = FeesUpTo(Len(executed_txs))

\* Both phases included a transaction, the fees are those of the two, and a
\* transaction was turned away in each phase.
C12_Witness ==
  /\ pc = "gate"
  /\ PoolInclusions = 1
  /\ il_work.inclusions = 1
  /\ il_work.iterations > il_work.inclusions
  /\ iter_calls # <<>>
  /\ total_fees = 3

\* ---------------------------------------------------------------------------
\* C13: when evm.transact returns an error that is not a transaction error, in
\* the mempool loop or in the IL pass, the step that received it ends the
\* attempt with EvmExecutionError: the transaction is not added, nothing is
\* accumulated or sealed, and from then on no step is taken, so no further
\* transaction is executed and neither Better nor Aborted is produced.
\* ---------------------------------------------------------------------------
C13_FatalEvmError ==
  [][/\ (evm_results' = Append(evm_results, EvmFatal))
          => /\ outcome'.kind = "EvmExecutionError"
             /\ pc' = "done"
             /\ header' = Nothing
             /\ UNCHANGED << accum, iter, il_bitfield >>
     /\ (outcome'.kind = "EvmExecutionError" /\ outcome.kind = None)
          => evm_results' = Append(evm_results, EvmFatal)
     /\ outcome.kind = "EvmExecutionError" => UNCHANGED vars]_vars

\* The IL pass hit a fatal EVM error after both phases had included a
\* transaction; the attempt is over without a payload.
C13_Witness ==
  /\ outcome.kind = "EvmExecutionError"
  /\ pc = "done"
  /\ PoolInclusions = 1
  /\ il_work.inclusions = 1
  /\ evm_results[Len(evm_results)] = EvmFatal
  /\ Len(evm_calls) > Len(executed_txs)

\* ---------------------------------------------------------------------------
\* C15: with a mempool that yields nothing, an inclusion list made of none
\* slots only, whatever its length, gives what the empty (or absent) list
\* gives: the IL pass steps over each slot once without executing anything,
\* executed_txs and receipts stay empty, cumulative_gas_used and total_fees
\* stay 0, and the outcome and the sealed header are the ones fixed by
\* best_payload and the Cancun flag alone.
\* ---------------------------------------------------------------------------
C15_NoneSlotsAreNoSlots ==
  (yields = 0 /\ \A k \in 1..Len(il) : il[k] = NoTx)
    => /\ executed_txs = <<>>
       /\ receipts = <<>>
       /\ cumulative_gas_used = 0
       /\ sum_blob_gas_used = 0
       /\ total_fees = 0
       /\ db = InitDb
       /\ evm_calls = <<>>
       /\ iter_calls = <<>>
       /\ il_work = [iterations |-> i, inclusions |-> 0, transacts |-> 0]
       /\ \A k \in 1..Len(il_bitfield) : ~il_bitfield[k]
       /\ outcome.kind \in {None, "Internal",
                            IF best_payload = Nothing THEN "Better"
                            ELSE "Aborted"}
       /\ outcome.kind \in {"Better", "Aborted"}
            => /\ outcome.fees = 0
               /\ outcome.cached_reads
               /\ il_work.iterations = Len(il)
       /\ outcome.kind = "Better"
            => header = Some([gas_limit     |-> block_gas_limit,
                              gas_used      |-> 0,
                              blob_gas_used |-> IF cancun THEN Some(0)
                                                ELSE Nothing])
       /\ outcome.kind # "Better" => header = Nothing

\* An attempt over an empty mempool and a list of two none slots ended Better.
C15_Witness ==
  /\ yields = 0
  /\ il = << NoTx, NoTx >>
  /\ il_work.iterations = 2
  /\ outcome.kind = "Better"

\* ---------------------------------------------------------------------------
\* C16: an attempt run the way build_empty_payload runs it (the mempool yields
\* nothing, there is no best prior payload, the cancel token is never
\* signalled) never returns Aborted or Cancelled. Unless it fails with an
\* error it returns Better, so build_empty_payload never answers
\* MissingPayload, and the payload holds exactly the transactions the IL pass
\* includes, in the order it includes them.
\* ---------------------------------------------------------------------------
EmptyPayloadMode == best_payload = Nothing /\ yields = 0 /\ ~cancelled

C16_EmptyPayload ==
  EmptyPayloadMode
    => /\ outcome.kind \notin {"Aborted", "Cancelled"}
       /\ pc = "done"
            => /\ outcome.kind \in {"Better", "Internal", "EvmExecutionError"}
               /\ build_empty_payload(outcome) # "MissingPayload"
               /\ evm_results # <<>> /\ evm_results[Len(evm_results)] = EvmFatal
                    <=> outcome.kind = "EvmExecutionError"
       /\ outcome.kind = "Better"
            => /\ build_empty_payload(outcome) = "Payload"
               /\ Len(executed_txs) = il_work.inclusions
               /\ executed_txs =
                    ILPassIncludes(InitDb, 0,
                                   [k \in 1..Len(il) |-> il[k] # NoTx], 0)
               /\ Unwrap(header).gas_used = GasUsedUpTo(Len(executed_txs))

\* build_empty_payload ends with a payload that is not empty: the IL pass put
\* both listed transactions into it.
C16_Witness ==
  /\ EmptyPayloadMode
  /\ pc = "done"
  /\ build_empty_payload(outcome) = "Payload"
  /\ Len(il) = 2
  /\ Len(executed_txs) = 2

\* ---------------------------------------------------------------------------
\* C17 as claimed: after the IL pass terminates, every IL slot whose bit is
\* true holds a transaction that was included in executed_txs.
\* ---------------------------------------------------------------------------
C17_SetBitsIncluded ==
  ILPassOver
    => \A k \in 1..Len(il) : il_bitfield[k] => il[k] \in Range(executed_txs)

\* ---------------------------------------------------------------------------
\* C17, amended: after the IL pass terminates, a slot whose bit is still true
\* holds a decoded transaction that is in executed_txs neither from the
\* mempool loop nor from the IL pass, and that fails on the final state with
\* NonceTooHigh or LackOfFundForMaxFee; every inclusion by the IL pass left
\* the bit of its slot false, so the included slots are among the cleared ones.
\* ---------------------------------------------------------------------------
C17_SetBitsAreBlocked ==
  ILPassOver
    => /\ \A k \in 1..Len(il) :
            il_bitfield[k]
              => /\ il[k] # NoTx
                 /\ il[k] \notin Range(executed_txs)
                 /\ ~is_eip4844(Tx(il[k]))
                 /\ cumulative_gas_used + Tx(il[k]).gas_limit <= block_gas_limit
                 /\ ~Transact(db, Tx(il[k])).ok
                 /\ Transact(db, Tx(il[k])).err
                      \in {"NonceTooHigh", "LackOfFundForMaxFee"}
       /\ \A n \in (PoolInclusions + 1)..Len(executed_txs) :
            \E k \in 1..Len(il) : il[k] = executed_txs[n] /\ ~il_bitfield[k]

\* The pass ended with both bits still set, one transaction blocked on its
\* nonce and one on its balance, after the mempool loop had filled part of
\* the block.
C17_Witness ==
  /\ pc = "gate"
  /\ il = <<2, 3>>
  /\ il_bitfield = <<TRUE, TRUE>>
  /\ Len(executed_txs) > 0
  /\ evm_results = << EvmOk, "NonceTooHigh", "LackOfFundForMaxFee" >>

\* ---------------------------------------------------------------------------
\* C18: the bitfield is set up with a bit true exactly for the slots that
\* decoded to a transaction; from then on no bit goes from false to true, a
\* step of the pass changes at most the bit at the scan index, and no other
\* step changes the bitfield. A none slot therefore stays false and is never
\* executed or included. An inclusion happens at a slot whose bit is true and
\* clears it, so each IL index is included at most once.
\* ---------------------------------------------------------------------------
C18_BitsOnlyCleared ==
  /\ [](/\ Len(il_bitfield) \in {0, Len(il)}
        /\ \A k \in 1..Len(il_bitfield) : il_bitfield[k] => il[k] # NoTx
        /\ NoTx \notin Range(evm_calls) \cup Range(executed_txs)
        /\ il_work.inclusions
             <= Cardinality({k \in 1..Len(il_bitfield) :
                               il[k] # NoTx /\ ~il_bitfield[k]}))
  /\ [][/\ (pc = "next" /\ pc' = "il")
             => il_bitfield' = [k \in 1..Len(il) |-> il[k] # NoTx]
        /\ pc = "il"
             => /\ Len(il_bitfield') = Len(il_bitfield)
                /\ \A k \in 1..Len(il_bitfield) :
                     /\ il_bitfield'[k] => il_bitfield[k]
                     /\ il_bitfield'[k] # il_bitfield[k] => k = i + 1
                /\ il_work'.inclusions # il_work.inclusions
                     => /\ il_bitfield[i + 1]
                        /\ ~il_bitfield'[i + 1]
                        /\ executed_txs' = Append(executed_txs, il[i + 1])
        /\ pc \notin {"next", "il"} => il_bitfield' = il_bitfield]_vars

\* The pass is over a list with a none slot and a transaction it included:
\* the none slot was never set, the included slot was cleared.
C18_Witness ==
  /\ pc = "gate"
  /\ il = << NoTx, 1 >>
  /\ il_bitfield = << FALSE, FALSE >>
  /\ il_work = [iterations |-> 4, inclusions |-> 1, transacts |-> 1]
  /\ executed_txs = <<1>>

\* ---------------------------------------------------------------------------
\* C19: the IL pass never submits an EIP-4844 transaction to the EVM and never
\* adds one to executed_txs. When the scan comes to a slot that is still set
\* and holds a blob transaction, that step clears the bit, moves on to the
\* next slot and changes nothing else. No step of the IL pass changes
\* sum_blob_gas_used.
\* ---------------------------------------------------------------------------
C19_ILBlobsRejected ==
  [][(pc = "il" /\ cancelled' = cancelled)
       => /\ sum_blob_gas_used' = sum_blob_gas_used
          /\ evm_calls' # evm_calls
               => /\ evm_calls' = Append(evm_calls, il[i + 1])
                  /\ ~is_eip4844(Tx(il[i + 1]))
          /\ executed_txs' # executed_txs
               => /\ executed_txs' = Append(executed_txs, il[i + 1])
                  /\ ~is_eip4844(Tx(il[i + 1]))
          /\ (i < Len(il) /\ il_bitfield[i + 1] /\ is_eip4844(Tx(il[i + 1])))
               => /\ il_bitfield' = [il_bitfield EXCEPT ![i + 1] = FALSE]
                  /\ i' = i + 1
                  /\ il_work' = [il_work EXCEPT !.iterations = @ + 1]
                  /\ UNCHANGED << pc, outcome, accum, iter, evm_calls,
                                  evm_results >>]_vars

\* The mempool loop included a blob transaction; the IL pass turned away the
\* listed blob transaction, executable as it was on the working state,
\* and included the other entry of the list.
C19_Witness ==
  /\ pc = "gate"
  /\ il = <<4, 1>>
  /\ il_bitfield = << FALSE, FALSE >>
  /\ executed_txs = <<6, 1>>
  /\ evm_calls = <<6, 1>>
  /\ sum_blob_gas_used = blob_gas(Tx(6))
  /\ Transact(db, Tx(4)).ok

\* ---------------------------------------------------------------------------
\* C20: every inclusion by the IL pass sets the scan index back to 0, and the
\* slot it includes is the lowest-index slot that is still set, holds no blob
\* transaction, fits the remaining block gas and executes successfully on the
\* working state of that moment. An entry that fails transiently and is
\* unblocked by an entry listed after it is therefore included after that
\* entry.
\* ---------------------------------------------------------------------------
ILEligibleNow(k) ==
  /\ il_bitfield[k]
  /\ ~is_eip4844(Tx(il[k]))
  /\ cumulative_gas_used + Tx(il[k]).gas_limit <= block_gas_limit
  /\ Transact(db, Tx(il[k])).ok

C20_LowestEligibleFirst ==
  [][(pc = "il" /\ il_work'.inclusions # il_work.inclusions)
       => /\ i' = 0
          /\ pc' = "il"
          /\ executed_txs' = Append(executed_txs, il[i + 1])
          /\ ILEligibleNow(i + 1)
          /\ \A k \in 1..i : ~ILEligibleNow(k)]_vars

\* The list names a transaction one nonce ahead of its sender, then the
\* transaction that uses the missing nonce: the pass included the second,
\* started over and included the first.
C20_Witness ==
  /\ pc = "gate"
  /\ yields = 0
  /\ il = <<2, 1>>
  /\ executed_txs = <<1, 2>>
  /\ evm_calls = <<2, 1, 2>>
  /\ evm_results = << "NonceTooHigh", EvmOk, EvmOk >>
  /\ il_work = [iterations |-> 5, inclusions |-> 2, transacts |-> 3]

\* ---------------------------------------------------------------------------
\* C21: the cancel token is polled in the body of the mempool loop and nowhere
\* else. Cancelled is returned only from the loop body, before the IL pass
\* has been set up; once the iterator is exhausted no step returns Cancelled,
\* a signal changes nothing but the token, and whether or not the token is
\* signalled the builder always has its next step to take: the IL pass, the
\* gate and the finalizer run on to Better, Aborted or an error.
\* ---------------------------------------------------------------------------
AfterPoolLoop == pc \in {"il", "gate", "finalize"}

C21_NoCancelAfterPool ==
  /\ [](AfterPoolLoop => ENABLED Step)
  /\ [][/\ (outcome'.kind = "Cancelled" /\ outcome.kind # "Cancelled")
             => /\ pc = "body"
                /\ cancelled
                /\ il_work.iterations = 0
                /\ header' = Nothing
        /\ AfterPoolLoop
             => /\ outcome'.kind \in {None, "Better", "Aborted", "Internal",
                                      "EvmExecutionError"}
                /\ cancelled' # cancelled
                     => UNCHANGED << pc, outcome, inputs, accum, iter,
                                     ilstate, header >>
                /\ pc' = "done" => outcome'.kind # None]_vars

\* The token is signalled, yet the attempt went through the IL pass, which
\* included a transaction, and ended Better with a sealed header: the signal
\* came after the last poll of the mempool loop.
C21_Witness ==
  /\ cancelled
  /\ yields > 0
  /\ il_work.inclusions > 0
  /\ outcome.kind = "Better"
  /\ header # Nothing

\* ---------------------------------------------------------------------------
\* C22: for an inclusion list of n slots of which k decoded to a transaction,
\* the IL pass makes at most k inclusions, at most (k + 1) * n loop iterations
\* and at most (k + 1) * k calls of evm.transact.
\* ---------------------------------------------------------------------------
DecodedSlots == {k \in 1..Len(il) : il[k] # NoTx}

C22_ILWorkBounded ==
  LET n == Len(il)
      k == Cardinality(DecodedSlots)
  IN /\ il_work.inclusions <= k
     /\ il_work.iterations <= (k + 1) * n
     /\ il_work.transacts <= (k + 1) * k
     /\ il_work.inclusions <= il_work.transacts
     /\ il_work.transacts <= il_work.iterations

\* After a mempool inclusion the pass needed three sweeps over a list of two:
\* five iterations, three EVM calls and two inclusions.
C22_Witness ==
  /\ pc = "gate"
  /\ PoolInclusions = 1
  /\ Cardinality(DecodedSlots) = 2
  /\ il_work = [iterations |-> 5, inclusions |-> 2, transacts |-> 3]

\* ---------------------------------------------------------------------------
\* C23: receipts and executed_txs always have the same length, and they, and
\* the working state, change only together: in one step of the mempool loop
\* or of the IL pass, for the transaction whose evm.transact call has just
\* returned Ok, which is appended to executed_txs, whose receipt (its type,
\* success, the gas used up to and including it) is appended to receipts and
\* whose returned state is committed. The mempool loop submits transactions
\* in the order the iterator yields them, and the IL pass includes nothing
\* before the loop has ended and the loop nothing after, so every mempool
\* transaction precedes every IL transaction.
\* ---------------------------------------------------------------------------
InPoolLoop == pc \in {"pre_block", "next", "body"}

C23_ReceiptsAndOrder ==
  /\ [](/\ Len(receipts) = Len(executed_txs)
        /\ Len(evm_results) = Len(evm_calls)
        /\ InPoolLoop => il_work.inclusions = 0 /\ il_work.transacts = 0
        /\ receipts # <<>>
             => receipts[Len(receipts)].cumulative_gas_used
                  = cumulative_gas_used)
  /\ [][/\ (executed_txs' # executed_txs \/ receipts' # receipts \/ db' # db)
             => /\ pc \in {"body", "il"}
                /\ LET id == IF pc = "body" THEN pool_tx ELSE il[i + 1] IN
                     /\ evm_calls' = Append(evm_calls, id)
                     /\ evm_results' = Append(evm_results, EvmOk)
                     /\ executed_txs' = Append(executed_txs, id)
                     /\ receipts' = Append(receipts,
                          [tx_type |-> IF Tx(id).blobs > 0 THEN "eip4844"
                                       ELSE "eip1559",
                           success |-> TRUE,
                           cumulative_gas_used
                             |-> cumulative_gas_used + Tx(id).gas_used])
                     /\ db' = PostState(db, Tx(id))
                /\ il_work'.inclusions
                     = il_work.inclusions + (IF pc = "il" THEN 1 ELSE 0)
        /\ evm_results' = Append(evm_results, EvmOk)
             => executed_txs' # executed_txs
        /\ (pc = "body" /\ evm_calls' # evm_calls)
             => evm_calls' = Append(evm_calls, pool_tx)
        /\ ~InPoolLoop
             => /\ pc' \notin {"pre_block", "next", "body"}
                /\ PoolInclusions' = PoolInclusions]_vars

\* Two transactions from the mempool, one of them a blob transaction, are
\* followed by one from the inclusion list, and calls that failed lie between.
C23_Witness ==
  /\ pc = "gate"
  /\ PoolInclusions = 2
  /\ il_work.inclusions = 1
  /\ receipts[1].tx_type # receipts[2].tx_type
  /\ Len(evm_calls) > Len(executed_txs)

\* ---------------------------------------------------------------------------
\* C24: a step that turns a transaction away, at the gas guard, at the blob
\* guard or because evm.transact returned a transaction error, in the mempool
\* loop or in the IL pass, leaves the working state, cumulative_gas_used,
\* sum_blob_gas_used, receipts, total_fees and executed_txs as they were and
\* returns nothing. In the mempool loop only the iterator may change (by one
\* mark_invalid call at most); in the IL pass only the bit at the scan index
\* may change, and the index moves on by one.
\* ---------------------------------------------------------------------------
PoolTurnsAway ==
  /\ pc = "body"
  /\ pc' # "body"
  /\ \/ Tx(pool_tx).gas_limit > block_gas_limit - cumulative_gas_used
     \/ /\ ~cancelled
        /\ \/ /\ is_eip4844(Tx(pool_tx))
              /\ sum_blob_gas_used + blob_gas(Tx(pool_tx))
                   > MAX_DATA_GAS_PER_BLOCK
           \/ /\ Len(evm_results') = Len(evm_results) + 1
              /\ evm_results'[Len(evm_results')] \notin {EvmOk, EvmFatal}

ILTurnsAway ==
  /\ pc = "il"
  /\ il_work' # il_work
  /\ i < Len(il)
  /\ il_bitfield[i + 1]
  /\ \/ is_eip4844(Tx(il[i + 1]))
     \/ Tx(il[i + 1]).gas_limit > block_gas_limit - cumulative_gas_used
     \/ /\ Len(evm_results') = Len(evm_results) + 1
        /\ evm_results'[Len(evm_results')] \notin {EvmOk, EvmFatal}

C24_RejectsChangeNothing ==
  [][/\ PoolTurnsAway
          => /\ UNCHANGED << accum, outcome, header, ilstate, inputs >>
             /\ pc' = "next"
             /\ \/ UNCHANGED iter
                \/ /\ Len(iter_calls') = Len(iter_calls) + 1
                   /\ iter_calls'[Len(iter_calls')].op = "mark_invalid"
                   /\ iter_calls'[Len(iter_calls')].tx = pool_tx
                   /\ blobs_skipped' = blobs_skipped
     /\ ILTurnsAway
          => /\ UNCHANGED << accum, outcome, header, iter, inputs, pc >>
             /\ i' = i + 1
             /\ \A k \in 1..Len(il) :
                  k # i + 1 => il_bitfield'[k] = il_bitfield[k]]_vars

\* The mempool loop marked a transaction invalid that its sender could not
\* pay for and included another; the IL pass then dropped one entry for a
\* stale nonce and one for being a blob transaction, and the block is still
\* the one mempool transaction.
C24_Witness ==
  /\ pc = "gate"
  /\ executed_txs = <<1>>
  /\ iter_calls = << MarkInvalidCall(3, "Consensus(TxTypeNotSupported)", 0, 0) >>
  /\ il = <<1, 4>>
  /\ il_bitfield = << FALSE, FALSE >>
  /\ evm_results = << "LackOfFundForMaxFee", EvmOk, "NonceTooLow" >>
  /\ cumulative_gas_used = 1
  /\ total_fees = 1

\* ---------------------------------------------------------------------------
\* C25: the finalizer runs only after the revenue gate has found the attempt
\* better. When the gate finds it not better the same step returns
\* Aborted{fees = total_fees, cached_reads}: the attempt never enters the
\* finalizer (requests, withdrawals, state root, sealing) and no header is
\* sealed. A header is sealed only by the finalizer on the way to Better; its
\* gas_used is cumulative_gas_used, which is the cumulative_gas_used of the
\* last receipt when a transaction was included.
\* ---------------------------------------------------------------------------
C25_FinalizeOnlyWhenBetter ==
  /\ [](/\ header # Nothing <=> outcome.kind = "Better"
        /\ pc = "finalize"
             => (best_payload = Nothing \/ total_fees > Unwrap(best_payload))
        /\ outcome.kind = "Aborted"
             => /\ outcome = [kind |-> "Aborted", fees |-> total_fees,
                              cached_reads |-> TRUE]
                /\ best_payload # Nothing
                /\ total_fees <= Unwrap(best_payload)
        /\ outcome.kind = "Better"
             => /\ outcome.fees = total_fees
                /\ Unwrap(header).gas_limit = block_gas_limit
                /\ Unwrap(header).gas_used = cumulative_gas_used
                /\ receipts # <<>>
                     => receipts[Len(receipts)].cumulative_gas_used
                          = Unwrap(header).gas_used
                /\ receipts = <<>> => Unwrap(header).gas_used = 0)
  /\ [][/\ (pc = "gate" /\ pc' # "gate")
             => IF best_payload = Nothing \/ total_fees > Unwrap(best_payload)
                  THEN pc' = "finalize" /\ outcome' = outcome
                  ELSE pc' = "done" /\ outcome'.kind = "Aborted"
        /\ (pc' = "finalize" /\ pc # "finalize") => pc = "gate"
        /\ outcome'.kind = "Aborted" => pc \in {"gate", "done"}
        /\ (outcome'.kind = "Better" /\ outcome.kind # "Better")
             => pc = "finalize"
        /\ pc \in {"gate", "finalize"} => UNCHANGED << accum, iter, ilstate >>
       ]_vars

\* The attempt collected exactly the fees of the best payload so far and was
\* given up at the gate: transactions were executed, nothing was sealed.
C25_Witness ==
  /\ outcome.kind = "Aborted"
  /\ best_payload # Nothing
  /\ outcome.fees = Unwrap(best_payload)
  /\ Len(receipts) = 2
  /\ il_work.inclusions = 1
  /\ header = Nothing

====
